---- MODULE Spec2Model ----
(* Model of AirSim/tcp_socket.py: TcpServer (the Listener) and TcpClient   *)
(* (the Connector), each running in its own process, together with the     *)
(* part of the socket / text-stream library behaviour their code relies on.*)
EXTENDS Integers, Sequences, FiniteSets

(* ------------------------------------------------------------------ *)
(* Universe                                                             *)
(* ------------------------------------------------------------------ *)
Servers == {"s1", "s2"}
Clients == {"c1", "c2"}
Comps == Servers \cup Clients
NoPeer == "none"

DefaultPort == 3000
Endpoints == {DefaultPort, DefaultPort + 1}
NoEp == 0

\* serversock.listen(1)
Backlog == 1

\* connections the kernel completes and queues for a listening socket before
\* accept takes them: one more than the backlog asked for
QueueCap == Backlog + 1

\* bounds of the exploration: characters in a line written, constructor and
\* write calls made in a run, close() calls made on one component
MaxLineLen == 1
MaxCalls == 4
MaxCloseCalls == 2

LF == 10
CR == 13

\* the characters the stream's conversions treat specially: U+00E9, encoded
\* in two bytes, and the carriage return
Chars == {233, CR}

(* ------------------------------------------------------------------ *)
(* Text conversion done by makefile('rw', encoding='utf-8')            *)
(* ------------------------------------------------------------------ *)
RECURSIVE Flatten(_)
Flatten(ss) == IF ss = <<>> THEN <<>> ELSE Head(ss) \o Flatten(Tail(ss))

\* UTF-8 encoding of one code point (below U+0800)
Utf8Encode(cp) == IF cp < 128 THEN <<cp>>
                  ELSE <<192 + (cp \div 64), 128 + (cp % 64)>>

EncodeText(text) == Flatten([i \in 1..Len(text) |-> Utf8Encode(text[i])])

\* UTF-8 decoding of a byte sequence made of complete characters
RECURSIVE Utf8Decode(_)
Utf8Decode(bytes) ==
  IF bytes = <<>> THEN <<>>
  ELSE IF bytes[1] < 128 THEN <<bytes[1]>> \o Utf8Decode(Tail(bytes))
  ELSE IF Len(bytes) >= 2
       THEN <<(bytes[1] - 192) * 64 + (bytes[2] - 128)>> \o Utf8Decode(Tail(Tail(bytes)))
       ELSE <<>>

\* newline=None on output: every '\n' becomes os.linesep
TranslateOut(text, sep) ==
  Flatten([i \in 1..Len(text) |-> IF text[i] = LF THEN sep ELSE <<text[i]>>])

\* what stream.write(text) appends to the pending output
WriteBytes(text, sep) == EncodeText(TranslateOut(text, sep))

\* newline=None on input, the decoder's step over one chunk of decoded
\* text: a '\r' ending the chunk is held back until the next chunk (or the
\* end of the input) is known, '\r\n' and '\r' become '\n'
NewlineDecode(text, pendingcr, final) ==
  LET inp == (IF pendingcr THEN <<CR>> ELSE <<>>) \o text
      hold == inp # <<>> /\ inp[Len(inp)] = CR /\ ~final
      body == IF hold THEN SubSeq(inp, 1, Len(inp) - 1) ELSE inp
      keep == {i \in 1..Len(body) : ~(body[i] = LF /\ i > 1 /\ body[i - 1] = CR)}
      RECURSIVE Pick(_)
      Pick(i) == IF i > Len(body) THEN <<>>
                 ELSE (IF i \in keep THEN <<IF body[i] = CR THEN LF ELSE body[i]>> ELSE <<>>)
                      \o Pick(i + 1)
  IN [out |-> Pick(1), pendingcr |-> hold]

HasLine(chars) == \E i \in 1..Len(chars) : chars[i] = LF

\* index of the first '\n' of text that has one
LineEnd(chars) == CHOOSE i \in 1..Len(chars) : chars[i] = LF /\ \A k \in 1..(i - 1) : chars[k] # LF

\* readline() on a stream holding the decoded characters chars, with the
\* bytes inbound received on the socket and eof telling that the peer has
\* closed: the line is taken from the characters held if they have one;
\* otherwise what the socket has received is read and decoded, and at the
\* end of the input what is left is returned.
\* [ready, line, chars, pendingcr, recv]: ready = the call returns, chars and
\* pendingcr = what the stream holds afterwards, recv = the socket was read
Readline(chars, pendingcr, inbound, eof) ==
  LET d == IF inbound # <<>> THEN NewlineDecode(Utf8Decode(inbound), pendingcr, FALSE)
           ELSE [out |-> <<>>, pendingcr |-> pendingcr]
      got == chars \o d.out
      last == got \o NewlineDecode(<<>>, d.pendingcr, TRUE).out
  IN IF HasLine(chars)
     THEN [ready |-> TRUE, line |-> SubSeq(chars, 1, LineEnd(chars)),
           chars |-> SubSeq(chars, LineEnd(chars) + 1, Len(chars)),
           pendingcr |-> pendingcr, recv |-> FALSE]
     ELSE IF HasLine(got)
     THEN [ready |-> TRUE, line |-> SubSeq(got, 1, LineEnd(got)),
           chars |-> SubSeq(got, LineEnd(got) + 1, Len(got)),
           pendingcr |-> d.pendingcr, recv |-> TRUE]
     ELSE IF eof
     THEN [ready |-> TRUE, line |-> last, chars |-> <<>>, pendingcr |-> FALSE, recv |-> TRUE]
     ELSE [ready |-> FALSE, line |-> <<>>, chars |-> chars, pendingcr |-> pendingcr,
           recv |-> FALSE]

(* ------------------------------------------------------------------ *)
(* Socket objects                                                       *)
(* ------------------------------------------------------------------ *)
NoSock == [fd |-> "none", closed |-> FALSE, io_refs |-> 0]
NewSock == [fd |-> "open", closed |-> FALSE, io_refs |-> 0]

\* socket.close(): mark closed, release the descriptor once no file object
\* made from the socket is left open
SockClose(sock) ==
  [sock EXCEPT !.closed = TRUE,
               !.fd = IF sock.io_refs <= 0 /\ @ = "open" THEN "released" ELSE @]

\* socket.makefile(): one more file object refers to the socket
SockMakefile(sock) == [sock EXCEPT !.io_refs = @ + 1]

\* closing the file object made from the socket: drop its reference, and
\* finish a close() of the socket that was waiting for it
SockDecref(sock) ==
  LET s1 == [sock EXCEPT !.io_refs = IF @ > 0 THEN @ - 1 ELSE @]
  IN IF s1.closed THEN SockClose(s1) ELSE s1

NoStream == [state |-> "none", id |-> 0, wbuf |-> <<>>]

(* ------------------------------------------------------------------ *)
(* State                                                                *)
(* ------------------------------------------------------------------ *)
VARIABLES
  comps,           \* the components the run constructs
  pc,              \* position of each component's process
  ep,              \* (ip, port) the component was constructed with
  serversock,      \* TcpServer.serversock
  bound,           \* endpoint the server socket is bound to
  listening,       \* server socket is in the listening state
  pending,         \* accept queue of the server socket
  clientsock,      \* TcpServer.clientsock
  client_address,  \* TcpServer.client_address: the peer accepted
  client,          \* TcpClient.client
  stream,          \* self.stream of either class
  up,              \* bytes in flight, connector -> listener, per connector
  down,            \* bytes in flight, listener -> connector, per connector
  linesep,         \* os.linesep of the platform
  view,            \* the DataStream most recently handed out: whose stream, which stream
  wlines,          \* lines written on each component's stream
  nflushed,        \* how many of them have been sent to the peer
  rlines,          \* lines returned by reads on each component's stream
  rchars,          \* characters the stream has decoded and not yet returned
  pendingcr,       \* the stream's decoder holds back a '\r'
  nwrites,         \* write calls so far
  accepts,         \* accept calls that returned, per server
  connects,        \* connect calls made, per client
  sawListener,     \* a listener was listening when the client connected
  closeLog,        \* outcome of each close() call that ended, per component
  err,             \* how the construction failed, if it did
  ioFailure        \* the most recent read or write call that raised

vars == <<pc, ep, serversock, bound, listening, pending, clientsock,
          client_address, client, stream, up, down, linesep, comps, view, wlines,
          nflushed, rlines, rchars, pendingcr, nwrites, accepts, connects, sawListener,
          closeLog, err, ioFailure>>

srvVars == <<serversock, bound, listening, pending, clientsock, client_address, accepts>>
cliVars == <<client, connects, sawListener>>
dataVars == <<up, down, wlines, nflushed, rlines, rchars, pendingcr, nwrites>>

NoFailure == [comp |-> NoPeer, op |-> "none"]
NoView == [comp |-> NoPeer, sid |-> 0]

Pair == {"s1", "c1"}

InitOf(cs, seps) ==
  /\ comps = cs
  /\ pc = [x \in Comps |-> "new"]
  /\ ep = [x \in Comps |-> NoEp]
  /\ serversock = [s \in Servers |-> NoSock]
  /\ bound = [s \in Servers |-> NoEp]
  /\ listening = [s \in Servers |-> FALSE]
  /\ pending = [s \in Servers |-> <<>>]
  /\ clientsock = [s \in Servers |-> NoSock]
  /\ client_address = [s \in Servers |-> NoPeer]
  /\ client = [c \in Clients |-> NoSock]
  /\ stream = [x \in Comps |-> NoStream]
  /\ up = [c \in Clients |-> <<>>]
  /\ down = [c \in Clients |-> <<>>]
  /\ linesep \in seps
  /\ view = NoView
  /\ wlines = [x \in Comps |-> <<>>]
  /\ nflushed = [x \in Comps |-> 0]
  /\ rlines = [x \in Comps |-> <<>>]
  /\ rchars = [x \in Comps |-> <<>>]
  /\ pendingcr = [x \in Comps |-> FALSE]
  /\ nwrites = 0
  /\ accepts = [s \in Servers |-> 0]
  /\ connects = [c \in Clients |-> 0]
  /\ sawListener = [c \in Clients |-> FALSE]
  /\ closeLog = [x \in Comps |-> <<>>]
  /\ err = [x \in Comps |-> "none"]
  /\ ioFailure = NoFailure

\* two listeners and two connectors on a platform whose line separator is
\* '\n'
Init == InitOf(Comps, {<<LF>>})

\* one listener and one connector, the line separator '\n' or '\r\n'
InitText == InitOf(Pair, {<<LF>>, <<CR, LF>>})

(* ------------------------------------------------------------------ *)
(* Derived notions                                                      *)
(* ------------------------------------------------------------------ *)
Range(f) == {f[i] : i \in DOMAIN f}

\* some other server socket is listening on endpoint e
ListenerOn(e, self) ==
  \E t \in Servers \ {self} :
     serversock[t].fd = "open" /\ bound[t] = e /\ listening[t]

\* the server whose socket listens on e, if any
Listeners(e) == {t \in Servers : serversock[t].fd = "open" /\ bound[t] = e /\ listening[t]}

\* the socket carrying the component's connection
ConnSock(x) == IF x \in Servers THEN clientsock[x] ELSE client[x]

\* the connector whose channel the component is an end of
Chan(x) == IF x \in Servers THEN client_address[x] ELSE x

\* is the far end of the component's connection still open ?
PeerOpen(x) ==
  IF x \in Servers
  THEN client_address[x] # NoPeer /\ client[client_address[x]].fd = "open"
  ELSE \/ \E s \in Servers : x \in Range(pending[s])
       \/ \E s \in Servers : client_address[s] = x /\ clientsock[s].fd = "open"

\* bytes received and not yet read on the component's connection
Inbound(x) == IF x \in Servers
              THEN (IF client_address[x] = NoPeer THEN <<>> ELSE up[client_address[x]])
              ELSE down[x]

\* constructor and write calls made so far in the run
Calls == Cardinality({x \in Comps : pc[x] # "new"}) + nwrites

(* ------------------------------------------------------------------ *)
(* TcpServer.__init__                                                   *)
(* ------------------------------------------------------------------ *)
\* socket.socket(...) and setsockopt(SO_REUSEADDR)
SrvSocket(s, e) ==
  /\ pc[s] = "new"
  /\ s \in comps
  /\ Calls < MaxCalls
  /\ pc' = [pc EXCEPT ![s] = "bind"]
  /\ ep' = [ep EXCEPT ![s] = e]
  /\ serversock' = [serversock EXCEPT ![s] = NewSock]
  /\ UNCHANGED <<bound, listening, pending, clientsock, client_address, accepts,
                 cliVars, stream, dataVars, linesep, comps, view, closeLog, ioFailure, err>>

\* variant: a refused bind is ignored and construction goes on
SrvBind_Ignored(s) ==
  /\ pc[s] = "bind"
  /\ pc' = [pc EXCEPT ![s] = "listen"]
  /\ IF ListenerOn(ep[s], s)
     THEN /\ err' = [err EXCEPT ![s] = "bind"]
          /\ UNCHANGED bound
     ELSE /\ bound' = [bound EXCEPT ![s] = ep[s]]
          /\ UNCHANGED err
  /\ UNCHANGED <<ep, serversock, listening, pending, clientsock, client_address,
                 accepts, cliVars, stream, dataVars, linesep, comps, view, closeLog, ioFailure>>

\* serversock.bind((ip, port)): with SO_REUSEADDR the bind is refused only
\* while another socket is listening on the address
SrvBind(s) ==
  /\ pc[s] = "bind"
  /\ IF ListenerOn(ep[s], s)
     THEN /\ pc' = [pc EXCEPT ![s] = "failed"]
          /\ err' = [err EXCEPT ![s] = "bind"]
          /\ UNCHANGED bound
     ELSE /\ pc' = [pc EXCEPT ![s] = "listen"]
          /\ bound' = [bound EXCEPT ![s] = ep[s]]
          /\ UNCHANGED err
  /\ UNCHANGED <<ep, serversock, listening, pending, clientsock, client_address,
                 accepts, cliVars, stream, dataVars, linesep, comps, view, closeLog, ioFailure>>

\* serversock.listen(1): refused if another socket bound to the same
\* address started listening in the meantime
SrvListen(s) ==
  /\ pc[s] = "listen"
  /\ IF ListenerOn(ep[s], s)
     THEN /\ pc' = [pc EXCEPT ![s] = "failed"]
          /\ err' = [err EXCEPT ![s] = "listen"]
          /\ UNCHANGED listening
     ELSE /\ pc' = [pc EXCEPT ![s] = "accept"]
          /\ listening' = [listening EXCEPT ![s] = TRUE]
          /\ UNCHANGED err
  /\ UNCHANGED <<ep, serversock, bound, pending, clientsock, client_address,
                 accepts, cliVars, stream, dataVars, linesep, comps, view, closeLog, ioFailure>>

\* variant: accept is called again for every further connection queued
SrvAccept_Again(s) ==
  /\ pc[s] \in {"accept", "idle"}
  /\ pending[s] # <<>>
  /\ pc' = [pc EXCEPT ![s] = "idle"]
  /\ client_address' = [client_address EXCEPT ![s] = Head(pending[s])]
  /\ pending' = [pending EXCEPT ![s] = Tail(@)]
  /\ clientsock' = [clientsock EXCEPT ![s] = SockMakefile(NewSock)]
  /\ stream' = [stream EXCEPT ![s] = [state |-> "open", id |-> 1, wbuf |-> <<>>]]
  /\ accepts' = [accepts EXCEPT ![s] = @ + 1]
  /\ UNCHANGED <<ep, serversock, bound, listening, cliVars, dataVars, linesep, comps,
                 view, closeLog, err, ioFailure>>

\* serversock.accept() blocks until a connection is queued; then makefile()
SrvAccept(s) ==
  /\ pc[s] = "accept"
  /\ pending[s] # <<>>
  /\ pc' = [pc EXCEPT ![s] = "idle"]
  /\ client_address' = [client_address EXCEPT ![s] = Head(pending[s])]
  /\ pending' = [pending EXCEPT ![s] = Tail(@)]
  /\ clientsock' = [clientsock EXCEPT ![s] = SockMakefile(NewSock)]
  /\ stream' = [stream EXCEPT ![s] = [state |-> "open", id |-> 1, wbuf |-> <<>>]]
  /\ accepts' = [accepts EXCEPT ![s] = @ + 1]
  /\ UNCHANGED <<ep, serversock, bound, listening, cliVars, dataVars, linesep, comps,
                 view, closeLog, ioFailure, err>>

(* ------------------------------------------------------------------ *)
(* TcpClient.__init__                                                   *)
(* ------------------------------------------------------------------ *)
CliSocket(c, e) ==
  /\ pc[c] = "new"
  /\ c \in comps
  /\ Calls < MaxCalls
  /\ pc' = [pc EXCEPT ![c] = "connect"]
  /\ ep' = [ep EXCEPT ![c] = e]
  /\ client' = [client EXCEPT ![c] = NewSock]
  /\ UNCHANGED <<srvVars, connects, sawListener, stream, dataVars, linesep, comps,
                 view, closeLog, ioFailure, err>>

\* variant: a refused connect is tried again
CliConnect_Retry(c) ==
  /\ pc[c] = "connect"
  /\ connects[c] < 3
  /\ connects' = [connects EXCEPT ![c] = @ + 1]
  /\ sawListener' = [sawListener EXCEPT ![c] = Listeners(ep[c]) # {}]
  /\ IF Listeners(ep[c]) = {}
     THEN /\ err' = [err EXCEPT ![c] = "refused"]
          /\ UNCHANGED <<pc, pending, client, stream>>
     ELSE \E s \in Listeners(ep[c]) :
          /\ Len(pending[s]) < QueueCap
          /\ pending' = [pending EXCEPT ![s] = Append(@, c)]
          /\ pc' = [pc EXCEPT ![c] = "idle"]
          /\ client' = [client EXCEPT ![c] = SockMakefile(@)]
          /\ stream' = [stream EXCEPT ![c] = [state |-> "open", id |-> 1, wbuf |-> <<>>]]
          /\ UNCHANGED err
  /\ UNCHANGED <<ep, serversock, bound, listening, clientsock, client_address,
                 accepts, dataVars, linesep, comps, view, closeLog, ioFailure>>

\* variant: the port argument is ignored, any listener is connected to
CliConnect_AnyPort(c) ==
  /\ pc[c] = "connect"
  /\ connects' = [connects EXCEPT ![c] = @ + 1]
  /\ LET all == UNION {Listeners(e) : e \in Endpoints}
     IN /\ sawListener' = [sawListener EXCEPT ![c] = all # {}]
        /\ IF all = {}
           THEN /\ pc' = [pc EXCEPT ![c] = "failed"]
                /\ err' = [err EXCEPT ![c] = "refused"]
                /\ UNCHANGED <<pending, client, stream>>
           ELSE \E s \in all :
                /\ Len(pending[s]) < QueueCap
                /\ pending' = [pending EXCEPT ![s] = Append(@, c)]
                /\ pc' = [pc EXCEPT ![c] = "idle"]
                /\ client' = [client EXCEPT ![c] = SockMakefile(@)]
                /\ stream' = [stream EXCEPT ![c] = [state |-> "open", id |-> 1, wbuf |-> <<>>]]
                /\ UNCHANGED err
  /\ UNCHANGED <<ep, serversock, bound, listening, clientsock, client_address,
                 accepts, dataVars, linesep, comps, view, closeLog, ioFailure>>

\* client.connect((ip, port)) is refused when nothing listens on the
\* endpoint, completes as soon as the listener's queue has room (accepted
\* or not), and otherwise waits; then makefile()
CliConnect(c) ==
  /\ pc[c] = "connect"
  /\ connects' = [connects EXCEPT ![c] = @ + 1]
  /\ sawListener' = [sawListener EXCEPT ![c] = Listeners(ep[c]) # {}]
  /\ IF Listeners(ep[c]) = {}
     THEN /\ pc' = [pc EXCEPT ![c] = "failed"]
          /\ err' = [err EXCEPT ![c] = "refused"]
          /\ UNCHANGED <<pending, client, stream>>
     ELSE \E s \in Listeners(ep[c]) :
          /\ Len(pending[s]) < QueueCap
          /\ pending' = [pending EXCEPT ![s] = Append(@, c)]
          /\ pc' = [pc EXCEPT ![c] = "idle"]
          /\ client' = [client EXCEPT ![c] = SockMakefile(@)]
          /\ stream' = [stream EXCEPT ![c] = [state |-> "open", id |-> 1, wbuf |-> <<>>]]
          /\ UNCHANGED err
  /\ UNCHANGED <<ep, serversock, bound, listening, clientsock, client_address,
                 accepts, dataVars, linesep, comps, view, closeLog, ioFailure>>

(* ------------------------------------------------------------------ *)
(* get_stream and the calls made on the stream                          *)
(* ------------------------------------------------------------------ *)
Failure(x, op) == [comp |-> x, op |-> op]

\* the life cycle of a component, read off the resources it holds
Lifecycle(x) ==
  IF stream[x].state = "none" THEN "Unconnected"
  ELSE IF stream[x].state = "open" /\ ConnSock(x).fd = "open" /\ ~ConnSock(x).closed
       THEN "Connected"
       ELSE "Closed"

\* variant: every call wraps the socket in a new file object
GetStream_Remake(x) ==
  /\ pc[x] = "idle"
  /\ stream[x].id < 3
  /\ stream' = [stream EXCEPT ![x] = [state |-> "open", id |-> @.id + 1, wbuf |-> <<>>]]
  /\ IF x \in Servers
     THEN /\ clientsock' = [clientsock EXCEPT ![x] = SockMakefile(@)]
          /\ UNCHANGED client
     ELSE /\ client' = [client EXCEPT ![x] = SockMakefile(@)]
          /\ UNCHANGED clientsock
  /\ view' = [comp |-> x, sid |-> stream'[x].id]
  /\ UNCHANGED <<pc, ep, serversock, bound, listening, pending, client_address,
                 accepts, connects, sawListener, dataVars, linesep, comps, closeLog,
                 err, ioFailure>>

\* return DataStream(self.stream): a new view of the stream held
GetStream(x) ==
  /\ pc[x] = "idle"
  /\ view' = [comp |-> x, sid |-> stream[x].id]
  /\ UNCHANGED <<pc, ep, srvVars, cliVars, stream, dataVars, linesep, comps, closeLog,
                 err, ioFailure>>

\* the line "h"
SampleLine == <<104>>

Lines == {SampleLine} \cup UNION {[1..n -> Chars] : n \in 0..MaxLineLen}

\* lines written in a run: any line in the runs with one listener and one
\* connector, the sample line in the runs with two of each
TextLines == IF comps = Pair THEN Lines ELSE {SampleLine}

\* stream.write(line + '\n'): the text is translated, encoded and kept in
\* the stream's buffer; the characters the stream has decoded and not yet
\* returned are dropped and its decoder is reset
Write(x, line) ==
  /\ pc[x] = "idle"
  /\ stream[x].state = "open"
  /\ Calls < MaxCalls
  /\ nwrites' = nwrites + 1
  /\ stream' = [stream EXCEPT ![x].wbuf = @ \o WriteBytes(line \o <<LF>>, linesep)]
  /\ wlines' = [wlines EXCEPT ![x] = Append(@, line)]
  /\ rchars' = [rchars EXCEPT ![x] = <<>>]
  /\ pendingcr' = [pendingcr EXCEPT ![x] = FALSE]
  /\ UNCHANGED <<pc, ep, srvVars, cliVars, up, down, nflushed, rlines, linesep, comps,
                 view, closeLog, err, ioFailure>>

\* the buffered bytes reach the peer's end of the channel
Deliver(x, bytes) ==
  IF x \in Servers
  THEN /\ down' = [down EXCEPT ![client_address[x]] = @ \o bytes]
       /\ UNCHANGED up
  ELSE /\ up' = [up EXCEPT ![x] = @ \o bytes]
       /\ UNCHANGED down

\* variant: a failed send closes the stream
Flush_CloseOnError(x) ==
  /\ pc[x] = "idle"
  /\ stream[x].state = "open"
  /\ stream[x].wbuf # <<>>
  /\ IF PeerOpen(x)
     THEN /\ Deliver(x, stream[x].wbuf)
          /\ stream' = [stream EXCEPT ![x].wbuf = <<>>]
          /\ nflushed' = [nflushed EXCEPT ![x] = Len(wlines[x])]
          /\ UNCHANGED ioFailure
     ELSE /\ UNCHANGED <<up, down, nflushed>>
          /\ \/ /\ stream' = [stream EXCEPT ![x].state = "closed"]
                /\ ioFailure' = Failure(x, "flush")
             \/ /\ stream' = [stream EXCEPT ![x].wbuf = <<>>]
                /\ UNCHANGED ioFailure
  /\ UNCHANGED <<pc, ep, srvVars, cliVars, wlines, rlines, rchars, pendingcr, nwrites,
                 linesep, comps, view, closeLog, err>>

\* stream.flush() with buffered output.  Towards a peer that is gone the
\* send either fails (the output stays buffered) or is accepted and lost.
Flush(x) ==
  /\ pc[x] = "idle"
  /\ stream[x].state = "open"
  /\ stream[x].wbuf # <<>>
  /\ IF PeerOpen(x)
     THEN /\ Deliver(x, stream[x].wbuf)
          /\ stream' = [stream EXCEPT ![x].wbuf = <<>>]
          /\ nflushed' = [nflushed EXCEPT ![x] = Len(wlines[x])]
          /\ UNCHANGED ioFailure
     ELSE /\ UNCHANGED <<up, down, nflushed>>
          /\ \/ /\ UNCHANGED stream
                /\ ioFailure' = Failure(x, "flush")
             \/ /\ stream' = [stream EXCEPT ![x].wbuf = <<>>]
                /\ UNCHANGED ioFailure
  /\ UNCHANGED <<pc, ep, srvVars, cliVars, wlines, rlines, rchars, pendingcr, nwrites,
                 linesep, comps, view, closeLog, err>>

\* stream.readline(): blocks until a whole line or the end of the input
ReadLine(x) ==
  /\ pc[x] = "idle"
  /\ stream[x].state = "open"
  /\ LET r == Readline(rchars[x], pendingcr[x], Inbound(x), ~PeerOpen(x))
     IN /\ r.ready
        /\ IF r.recv /\ x \in Servers
           THEN up' = [up EXCEPT ![client_address[x]] = <<>>]
           ELSE UNCHANGED up
        /\ IF r.recv /\ x \in Clients
           THEN down' = [down EXCEPT ![x] = <<>>]
           ELSE UNCHANGED down
        /\ rchars' = [rchars EXCEPT ![x] = r.chars]
        /\ pendingcr' = [pendingcr EXCEPT ![x] = r.pendingcr]
        /\ rlines' = [rlines EXCEPT ![x] = IF r.line = <<>> THEN @ ELSE Append(@, r.line)]
  /\ UNCHANGED <<pc, ep, srvVars, cliVars, stream, wlines, nflushed, nwrites,
                 linesep, comps, view, closeLog, err, ioFailure>>

\* stream.readline() on a connection the peer has dropped can raise instead
\* of reporting the end of the input; nothing changes
ReadError(x) ==
  /\ pc[x] = "idle"
  /\ stream[x].state = "open"
  /\ ~PeerOpen(x)
  /\ Inbound(x) = <<>>
  /\ ~HasLine(rchars[x])
  /\ ioFailure' = Failure(x, "readline")
  /\ UNCHANGED <<pc, ep, srvVars, cliVars, stream, dataVars, linesep, comps, view,
                 closeLog, err>>

(* ------------------------------------------------------------------ *)
(* close()                                                              *)
(* ------------------------------------------------------------------ *)
\* self.stream.close(): flush what is buffered, then close the file object
\* whether or not the flush failed.  fails = the flush raised, which ends
\* the close() call.
StreamClose(x, fails) ==
  /\ IF stream[x].state = "open"
     THEN /\ stream' = [stream EXCEPT ![x] = [@ EXCEPT !.state = "closed", !.wbuf = <<>>]]
          /\ IF stream[x].wbuf # <<>> /\ PeerOpen(x)
             THEN /\ Deliver(x, stream[x].wbuf)
                  /\ nflushed' = [nflushed EXCEPT ![x] = Len(wlines[x])]
             ELSE UNCHANGED <<up, down, nflushed>>
          /\ IF x \in Servers
             THEN /\ clientsock' = [clientsock EXCEPT ![x] = SockDecref(@)]
                  /\ UNCHANGED client
             ELSE /\ client' = [client EXCEPT ![x] = SockDecref(@)]
                  /\ UNCHANGED clientsock
     ELSE UNCHANGED <<stream, up, down, nflushed, clientsock, client>>
  /\ IF fails
     THEN /\ pc' = [pc EXCEPT ![x] = "idle"]
          /\ closeLog' = [closeLog EXCEPT ![x] = Append(@, "raised")]
     ELSE /\ pc' = [pc EXCEPT ![x] = IF x \in Servers THEN "close_clientsock" ELSE "close_client"]
          /\ UNCHANGED closeLog

\* the flush inside stream.close() can raise: output is buffered and the
\* peer is gone
FlushCanFail(x) == stream[x].state = "open" /\ stream[x].wbuf # <<>> /\ ~PeerOpen(x)

\* variant: the stream is not closed before the sockets
SrvCloseStream_Skipped(s) ==
  /\ pc[s] = "idle"
  /\ Len(closeLog[s]) < MaxCloseCalls
  /\ pc' = [pc EXCEPT ![s] = "close_clientsock"]
  /\ UNCHANGED <<ep, srvVars, cliVars, stream, dataVars, linesep, comps, view, closeLog,
                 err, ioFailure>>

\* TcpServer.close(), first statement
SrvCloseStream(s) ==
  /\ pc[s] = "idle"
  /\ Len(closeLog[s]) < MaxCloseCalls
  /\ \E fails \in {FALSE, FlushCanFail(s)} : StreamClose(s, fails)
  /\ UNCHANGED <<ep, serversock, bound, listening, pending, client_address, accepts,
                 connects, sawListener, wlines, rlines, rchars, pendingcr, nwrites,
                 linesep, comps, view, err, ioFailure>>

\* self.clientsock.close()
SrvCloseClientsock(s) ==
  /\ pc[s] = "close_clientsock"
  /\ clientsock' = [clientsock EXCEPT ![s] = SockClose(@)]
  /\ pc' = [pc EXCEPT ![s] = "close_serversock"]
  /\ UNCHANGED <<ep, serversock, bound, listening, pending, client_address, accepts,
                 cliVars, stream, dataVars, linesep, comps, view, closeLog, err, ioFailure>>

\* self.serversock.close(): connections still queued are dropped
SrvCloseServersock(s) ==
  /\ pc[s] = "close_serversock"
  /\ serversock' = [serversock EXCEPT ![s] = SockClose(@)]
  /\ pending' = [pending EXCEPT ![s] = <<>>]
  /\ pc' = [pc EXCEPT ![s] = "idle"]
  /\ closeLog' = [closeLog EXCEPT ![s] = Append(@, "ok")]
  /\ UNCHANGED <<ep, bound, listening, clientsock, client_address, accepts,
                 cliVars, stream, dataVars, linesep, comps, view, err, ioFailure>>

\* TcpClient.close(), first statement
CliCloseStream(c) ==
  /\ pc[c] = "idle"
  /\ Len(closeLog[c]) < MaxCloseCalls
  /\ \E fails \in {FALSE, FlushCanFail(c)} : StreamClose(c, fails)
  /\ UNCHANGED <<ep, serversock, bound, listening, pending, client_address, accepts,
                 connects, sawListener, wlines, rlines, rchars, pendingcr, nwrites,
                 linesep, comps, view, err, ioFailure>>

\* self.client.close()
CliCloseClient(c) ==
  /\ pc[c] = "close_client"
  /\ client' = [client EXCEPT ![c] = SockClose(@)]
  /\ pc' = [pc EXCEPT ![c] = "idle"]
  /\ closeLog' = [closeLog EXCEPT ![c] = Append(@, "ok")]
  /\ UNCHANGED <<ep, srvVars, connects, sawListener, stream, dataVars, linesep, comps,
                 view, err, ioFailure>>

Next ==
  \/ \E s \in Servers, e \in Endpoints : SrvSocket(s, e)
  \/ \E s \in Servers : SrvBind(s)
  \/ \E s \in Servers : SrvListen(s)
  \/ \E s \in Servers : SrvAccept(s)
  \/ \E c \in Clients, e \in Endpoints : CliSocket(c, e)
  \/ \E c \in Clients : CliConnect(c)
  \/ \E x \in Comps : GetStream(x)
  \/ \E x \in Comps, line \in TextLines : Write(x, line)
  \/ \E x \in Comps : Flush(x)
  \/ \E x \in Comps : ReadLine(x)
  \/ \E x \in Comps : ReadError(x)
  \/ \E s \in Servers : SrvCloseStream(s)
  \/ \E s \in Servers : SrvCloseClientsock(s)
  \/ \E s \in Servers : SrvCloseServersock(s)
  \/ \E c \in Clients : CliCloseStream(c)
  \/ \E c \in Clients : CliCloseClient(c)

Spec == Init /\ [][Next]_vars

SpecText == InitText /\ [][Next]_vars

(* ------------------------------------------------------------------ *)
(* Properties                                                           *)
(* ------------------------------------------------------------------ *)
Constructed(x) == stream[x].state # "none"

\* no close() call of the component is in progress and one has ended
CloseEnded(x) == pc[x] = "idle" /\ closeLog[x] # <<>>

AllReleased(x) ==
  /\ stream[x].state = "closed"
  /\ ConnSock(x).fd = "released"
  /\ x \in Servers => serversock[x].fd = "released"

\* C1: once a close() call on a connected Listener or Connector has ended,
\* by returning or by raising, the stream, the peer socket and (Listener)
\* the listening socket have all been released.
C1_AllReleasedWhenCloseEnds ==
  \A x \in Comps : CloseEnded(x) => AllReleased(x)

\* C2: resources are released in the order stream, peer socket, listening
\* socket (Listener) and stream, socket (Connector): no later one is
\* released or closed while an earlier one is not.
C2_ReleaseOrder ==
  /\ \A s \in Servers :
       /\ serversock[s].fd = "released" => clientsock[s].fd = "released"
       /\ serversock[s].closed => clientsock[s].closed
       /\ clientsock[s].fd = "released" => stream[s].state = "closed"
       /\ clientsock[s].closed => stream[s].state = "closed"
  /\ \A c \in Clients :
       /\ client[c].fd = "released" => stream[c].state = "closed"
       /\ client[c].closed => stream[c].state = "closed"

\* a Listener and a Connector have both gone through a whole close()
C2_Witness ==
  \E s \in Servers, c \in Clients :
     /\ closeLog[s] = <<"ok">> /\ serversock[s].fd = "released"
     /\ closeLog[c] = <<"ok">> /\ client[c].fd = "released"

\* a step of the component's own close() call
InClose(x) ==
  \/ pc'[x] \in {"close_clientsock", "close_serversock", "close_client"}
  \/ closeLog'[x] # closeLog[x]

\* C3: the life cycle moves only Unconnected -> Connected -> Closed; only a
\* step of close() takes Connected to Closed, and a read or write that
\* raises leaves the component where it was.
C3_LifecycleSteps ==
  [][\A x \in Comps :
       /\ Lifecycle(x)' # Lifecycle(x) =>
            \/ Lifecycle(x) = "Unconnected" /\ Lifecycle(x)' = "Connected"
            \/ Lifecycle(x) = "Connected" /\ Lifecycle(x)' = "Closed" /\ InClose(x)
       /\ (ioFailure' # ioFailure /\ ioFailure'.comp = x) =>
            Lifecycle(x)' = Lifecycle(x)]_vars

\* a flush on an established connection has raised and the component is
\* still Connected
C3_Witness ==
  \E x \in Comps :
     ioFailure = Failure(x, "flush") /\ Lifecycle(x) = "Connected"

\* the connections a component holds
Held(x) == IF Constructed(x) /\ ConnSock(x).fd = "open" THEN {Chan(x)} ELSE {}

\* C4: every Listener and Connector holds at most one Connection; a
\* Listener accepts at most one peer in its life, however many Connectors
\* connect to its endpoint, and no Connection is held by two Listeners.
C4_SingleConnection ==
  /\ \A x \in Comps : Cardinality(Held(x)) <= 1
  /\ \A s \in Servers : accepts[s] <= 1
  /\ \A c \in Clients : connects[c] <= 1
  /\ \A s, t \in Servers :
       (s # t /\ client_address[s] # NoPeer) => client_address[s] # client_address[t]

\* a Listener has accepted one Connector while a second Connector has
\* connected to the same endpoint
C4_Witness ==
  \E s \in Servers, c, d \in Clients :
     /\ c # d /\ ep[c] = ep[s] /\ ep[d] = ep[s]
     /\ client_address[s] = c /\ accepts[s] = 1
     /\ connects[d] = 1 /\ Constructed(d)

\* C5: a Listener whose bind is refused because another listener holds the
\* endpoint fails in construction with a bind error and stays failed: it
\* never listens or accepts and has no peer socket and no stream.
C5_BindRefused ==
  /\ [](\A s \in Servers :
          err[s] = "bind" =>
            /\ pc[s] = "failed"
            /\ ~listening[s] /\ bound[s] = NoEp
            /\ accepts[s] = 0
            /\ clientsock[s] = NoSock /\ stream[s] = NoStream
            /\ Lifecycle(s) = "Unconnected")
  /\ [][\A s \in Servers :
          /\ (pc[s] = "bind" /\ pc'[s] # "bind" /\ ListenerOn(ep[s], s)) =>
               (pc'[s] = "failed" /\ err'[s] = "bind")
          /\ pc[s] = "failed" => pc'[s] = "failed"]_vars

\* a bind was refused while another Listener was listening on the endpoint
C5_Witness ==
  \E s, t \in Servers :
     /\ s # t /\ err[s] = "bind" /\ ep[s] = ep[t]
     /\ listening[t] /\ Lifecycle(t) = "Connected"

\* the only Listener and the only Connector constructed with endpoint e
OnlyPair(s, c) ==
  /\ ep[s] # NoEp /\ ep[c] = ep[s]
  /\ \A t \in Servers \ {s} : ep[t] # ep[s]
  /\ \A d \in Clients \ {c} : ep[d] # ep[s]

\* C6: a Listener constructed on an endpoint and one Connector constructed
\* to it while it listens: neither construction fails, each side gets
\* exactly one Connection, and they are the two ends of one channel.
C6_PairConnects ==
  \A s \in Servers, c \in Clients :
     /\ (OnlyPair(s, c) /\ sawListener[c]) =>
          /\ err[s] = "none" /\ err[c] = "none"
          /\ connects[c] = 1 /\ Constructed(c)
          /\ \/ pc[s] = "accept" /\ pending[s] = <<c>> /\ accepts[s] = 0
             \/ Constructed(s) /\ client_address[s] = c /\ accepts[s] = 1
     /\ client_address[s] = c =>
          /\ ep[c] = ep[s]
          /\ Constructed(s) /\ Constructed(c)
          /\ Chan(s) = Chan(c)
          /\ \A i \in 1..Len(pending[s]) : pending[s][i] # c

\* both constructions are complete and both ends Connected
C6_Witness ==
  \E s \in Servers, c \in Clients :
     /\ OnlyPair(s, c) /\ sawListener[c]
     /\ client_address[s] = c
     /\ Lifecycle(s) = "Connected" /\ Lifecycle(c) = "Connected"
     /\ ep[s] = DefaultPort + 1

\* C7: get_stream() returns a view of the stream the component holds, the
\* same one at every call, and changes nothing the component holds: not
\* its life cycle, its stream, its sockets or the data in flight.
C7_GetStreamIdempotent ==
  /\ [](view # NoView => view.sid = stream[view.comp].id /\ view.sid = 1)
  /\ [][view' # view =>
          /\ view'.sid = stream[view'.comp].id
          /\ \A x \in Comps : view'.comp = x => Lifecycle(x)' = Lifecycle(x)
          /\ UNCHANGED <<pc, stream, srvVars, cliVars, dataVars, closeLog>>]_vars

\* a view was handed out after lines were written and read on the stream,
\* and another one to the peer before that
C7_Witness ==
  \E s \in Servers, c \in Clients :
     /\ view = [comp |-> s, sid |-> 1]
     /\ rlines[s] # <<>> /\ wlines[s] # <<>>
     /\ Lifecycle(s) = "Connected"

\* C8: a Connector constructed to an endpoint nobody listens on fails with
\* a refused connection; the connect was made once, is never made again,
\* and the Connector never gets a stream or becomes Connected.
C8_RefusedIsTerminal ==
  /\ [](\A c \in Clients :
          (connects[c] >= 1 /\ ~sawListener[c]) =>
            /\ pc[c] = "failed" /\ err[c] = "refused"
            /\ connects[c] = 1
            /\ stream[c] = NoStream /\ Lifecycle(c) = "Unconnected"
            /\ \A s \in Servers : client_address[s] # c)
  /\ [][\A c \in Clients :
          pc[c] = "failed" =>
            (pc'[c] = "failed" /\ connects'[c] = connects[c] /\ stream'[c] = stream[c])]_vars

\* the connect was refused and a Listener has since started to listen on
\* that endpoint
C8_Witness ==
  \E c \in Clients :
     /\ err[c] = "refused" /\ connects[c] = 1
     /\ Listeners(ep[c]) # {}

\* C9: the first close() call that ends has released everything the
\* component owns, and a second close() call does not raise and leaves
\* everything released.
C9_CloseOnceReleasesAll ==
  \A x \in Comps :
     /\ (Len(closeLog[x]) >= 1 /\ pc[x] = "idle") => AllReleased(x)
     /\ Len(closeLog[x]) >= 2 => closeLog[x][2] = "ok"

\* the lines the Listener has read are the Connector's, in order and
\* unchanged; a line sent and not yet read is what the next read returns
InOrder(s, c) ==
  /\ Len(rlines[s]) <= Len(wlines[c])
  /\ \A i \in 1..Len(rlines[s]) : rlines[s][i] = wlines[c][i] \o <<LF>>
  /\ (Len(rlines[s]) < nflushed[c] /\ stream[s].state = "open") =>
       LET r == Readline(rchars[s], pendingcr[s], up[c], ~PeerOpen(s))
       IN r.ready /\ r.line = wlines[c][Len(rlines[s]) + 1] \o <<LF>>

\* C10: every line the Connector wrote and flushed is returned unchanged
\* and in order by the reads on the Listener's stream (a flushed line not
\* yet read is what the next read returns, without blocking), and a close()
\* call of either component that ends after a line was returned does not
\* raise.
C10_LineRoundTrip ==
  /\ [](\A s \in Servers, c \in Clients : client_address[s] = c => InOrder(s, c))
  /\ [][\A s \in Servers, c \in Clients :
          (client_address[s] = c /\ rlines[s] # <<>>) =>
            \A x \in {s, c} :
               closeLog'[x] # closeLog[x] =>
                 closeLog'[x][Len(closeLog'[x])] = "ok"]_vars

\* two lines, one of them with a two-byte character, went from the
\* Connector to the Listener and both sides closed without an error
C10_Witness ==
  \E s \in Servers, c \in Clients :
     /\ client_address[s] = c
     /\ wlines[c] = <<<<104>>, <<233>>>>
     /\ rlines[s] = <<<<104, LF>>, <<233, LF>>>>
     /\ closeLog[s] = <<"ok">> /\ closeLog[c] = <<"ok">>
====
